---------------------------- MODULE Spec2Model ----------------------------
(***************************************************************************)
(* The print queue of ASME-WEB (src/app.py, src/models.py): the PrintJob   *)
(* table, dispatch_next_job / launch_print_command, and the submit,        *)
(* complete, fail and delete handlers in both transports (JSON API and     *)
(* form post).                                                             *)
(*                                                                         *)
(* Spec     : handlers run one at a time, each to completion.              *)
(* SpecConc : NumWorkers request workers, each with its own database       *)
(*            session, interleave at every store read and commit.          *)
(***************************************************************************)
EXTENDS Integers, Sequences, FiniteSets, TLC

\* ------------------------------------------------------------------ bounds
MaxIds == 4          \* primary keys the table can hand out (ids 1..MaxIds)
MaxJobs == 3         \* job records ever created, but for SpecQueue
MaxClock == 2        \* distinct readings of datetime.utcnow()
MaxTimedJobs == 2    \* job records ever created under SpecTime
MaxConcJobs == 2     \* job records ever created under SpecConc
NumWorkers == 2      \* concurrent request workers (SpecConc)
MaxSnapJobs == 9     \* job records ever created under SpecSnapshot
MaxTransportJobs == 2  \* job records ever created under SpecTransport
MaxQty == 3          \* the largest total_qty of the item (SpecInventory)
MaxTx == 2           \* rows of the transactions table (SpecInventory)
MaxMeetings == 3     \* the largest meeting id (SpecMeetings)
MaxTokens == 2       \* cancellation tokens ever generated (SpecMeetings)
MaxSlot == 3         \* clock times a meeting can start or end at (SpecMeetings)

\* --------------------------------------------------------------- constants
PRINTER_TYPES == {"H2S", "P1S"}
None == 0                                 \* a NULL timestamp / "no job"
NoNotes == << >>                          \* notes IS NULL
JobIds == 1 .. MaxIds
SpecIds == 1 .. MaxJobs                   \* the ids a request names, but for SpecQueue
Workers == 1 .. NumWorkers

\* Raw request values, before the handler normalises them.  A request that
\* carries a file is multipart, so both transports read its fields from
\* request.form; Missing is a field the request does not have (Python None,
\* which str() would turn into the text "None").
Missing == "None"
PrinterInputs == {"H2S", "p1s", "XYZ", Missing}
NotesInputs == {"", "thin walls", Missing}
FileInputs == {"part.gcode", "part.stl", ""}

\* The submit requests tried: every well-formed one, and one per defect.
SubmitRequests ==
    {rq \in [member : BOOLEAN, printer_type : PrinterInputs,
             file : FileInputs, notes : NotesInputs] :
        \/ rq.member /\ rq.printer_type \in {"H2S", "p1s"} /\ rq.file = "part.gcode"
        \/ rq.notes = "" /\ rq.printer_type = Missing /\ rq.member /\ rq.file = "part.gcode"
        \/ rq.notes = "" /\ rq.printer_type = "H2S" /\ ~rq.member /\ rq.file = "part.gcode"
        \/ rq.notes = "" /\ rq.printer_type = "XYZ" /\ rq.member /\ rq.file = "part.gcode"
        \/ rq.notes = "" /\ rq.printer_type = "H2S" /\ rq.member /\ rq.file # "part.gcode"}

\* What the environment makes of one launch_print_command call: the
\* ASME_<type>_PRINT_CMD variable is unset; the child process exits 0; it
\* exits non-zero (shell=True: "command not found" is exit 127); or the
\* call raises: the template names a placeholder str.format does not know
\* (KeyError), or subprocess.run cannot start the shell (OSError).
LaunchOutcomes == {"unset", "exit0", "nonzero", "badtemplate"}

\* The outcomes for which launch_print_command returns an error text.
LaunchFailures == {"unset", "nonzero"}

\* What os.path.exists / os.remove make of the stored file on delete.
FileOutcomes == {"removed", "oserror", "missing"}

VARIABLES
    jobs,        \* the print_jobs table: id -> row, DOMAIN = rows that exist
    nextId,      \* the next primary key
    clock,       \* datetime.utcnow()
    launched,    \* history: the launch_print_command calls of the last handler call
    launchCount, \* history: per job id, the launch_print_command calls ever made
    last,        \* history: the last handler call and its response
    wk,          \* SpecConc: per worker, the request in progress
    snap,        \* the queue snapshot in the last response, if it carried one
    proc,        \* SpecLaunch: a finished child process and the text made of it
    item,        \* one row of the items table: total_qty and available_qty
    transactions,\* the transactions table, in insertion order
    meetings,    \* the meetings table: id -> row, DOMAIN = rows that exist
    tokens,      \* the cancellation tokens generated so far
    reply        \* history: the last inventory or calendar call and its response

vars == <<jobs, nextId, clock, launched, launchCount, last, wk, snap, proc,
          item, transactions, meetings, tokens, reply>>

\* The inventory and the room calendar.
desk == <<item, transactions, meetings, tokens, reply>>

\* What the print handlers neither read nor write.
outside == <<snap, proc, desk>>

\* ------------------------------------------------------- queries on a table
Rows(js, pt, st) == {i \in DOMAIN js : js[i].printer_type = pt /\ js[i].status = st}

\* ORDER BY submitted_at ASC, id ASC
Precedes(js, a, b) ==
    \/ js[a].submitted_at < js[b].submitted_at
    \/ js[a].submitted_at = js[b].submitted_at /\ a < b

\* Mutant: the newest queued job instead of the oldest.
LastQueued(js, pt) ==
    IF Rows(js, pt, "queued") = {} THEN None
    ELSE CHOOSE i \in Rows(js, pt, "queued") :
             \A j \in Rows(js, pt, "queued") \ {i} : Precedes(js, j, i)

\* filter_by(printer_type, status="queued").order_by(submitted_at, id).first()
FirstQueued(js, pt) ==
    IF Rows(js, pt, "queued") = {} THEN None
    ELSE CHOOSE i \in Rows(js, pt, "queued") :
             \A j \in Rows(js, pt, "queued") \ {i} : Precedes(js, i, j)

\* Mutant: the busy check finds nothing.
NoActiveRows(js, pt) == {}

\* Mutant: a printing job of any type makes every type busy.
ActiveRowsAnyType(js, pt) == {i \in DOMAIN js : js[i].status = "printing"}

\* filter_by(printer_type, status="printing").first(): no ORDER BY, any row
ActiveRows(js, pt) == Rows(js, pt, "printing")

\* ------------------------------------------------------------- the launcher
EnvName(pt) == "ASME_" \o pt \o "_PRINT_CMD"

\* Mutant: a missing command template counts as a successful launch.
launch_unset_is_success(job, outcome) ==
    CASE outcome = "unset"   -> "None"
      [] outcome = "exit0"   -> "None"
      [] outcome = "nonzero" -> EnvName(job.printer_type) \o " failed"
      [] OTHER               -> "raise"

\* launch_print_command: None on exit 0, else the error text.  The
\* "badtemplate" outcome raises and is handled by the caller of this operator.
launch_print_command(job, outcome) ==
    CASE outcome = "unset"   -> EnvName(job.printer_type) \o " is not configured"
      [] outcome = "exit0"   -> "None"
      [] outcome = "nonzero" -> EnvName(job.printer_type) \o " failed"
      [] OTHER               -> "raise"

\* Mutant: the error text replaces the notes.
AppendNoteOverwrites(notes, err) == <<err>>

\* next_job.notes = f"{notes} | {err}" if notes else err
AppendNote(notes, err) == IF notes # NoNotes THEN notes \o <<" | ", err>> ELSE <<err>>

\* ------------------------------------------------------------- the dispatcher
\* Mutant: a pass that starts nothing returns some job of the table.
NoPassReturnsJob(js, log) ==
    [jobs |-> js, log |-> log, raised |-> FALSE,
     ret |-> IF DOMAIN js = {} THEN None ELSE CHOOSE i \in DOMAIN js : TRUE]

NoPass(js, log) == [jobs |-> js, log |-> log, ret |-> None, raised |-> FALSE]

\* Mutant: the promotion does not stamp started_at.
PromoteWithoutStamp(js, n, now) == [js EXCEPT ![n].status = "printing"]

Promote(js, n, now) == [js EXCEPT ![n].status = "printing", ![n].started_at = now]

\* Mutant: the failure is noted but the status is left as it was.
MarkLaunchFailedKeepsActive(js, n, err, now) ==
    [js EXCEPT ![n].completed_at = now,
               ![n].notes = AppendNote(js[n].notes, err)]

\* Mutant: the failure is recorded without a completion time.
MarkLaunchFailedNoStamp(js, n, err, now) ==
    [js EXCEPT ![n].status = "failed",
               ![n].notes = AppendNote(js[n].notes, err)]

MarkLaunchFailed(js, n, err, now) ==
    [js EXCEPT ![n].status = "failed",
               ![n].completed_at = now,
               ![n].notes = AppendNote(js[n].notes, err)]

\* Mutant: a failed launch is recorded and the pass ends there.
dispatch_without_recursion(js, log, pt, out, now) ==
    IF ActiveRows(js, pt) # {} THEN NoPass(js, log)
    ELSE LET n == FirstQueued(js, pt) IN
         IF n = None THEN NoPass(js, log)
         ELSE LET js1  == Promote(js, n, now)
                  err  == launch_print_command(js1[n], out[n])
                  log1 == Append(log, [id |-> n, outcome |-> out[n]])
              IN  CASE err = "None"  -> [jobs |-> js1, log |-> log1, ret |-> n, raised |-> FALSE]
                    [] err = "raise" -> [jobs |-> js1, log |-> log1, ret |-> None, raised |-> TRUE]
                    [] OTHER -> NoPass(MarkLaunchFailed(js1, n, err, now), log1)

\* Mutant: the pass does not look for a printing job first.
dispatch_ignores_busy(js, log, pt, out, now) ==
    LET n == FirstQueued(js, pt) IN
    IF n = None THEN NoPass(js, log)
    ELSE LET js1  == Promote(js, n, now)
             o    == IF n \in DOMAIN out THEN out[n] ELSE "exit0"
             err  == launch_print_command(js1[n], o)
             log1 == Append(log, [id |-> n, outcome |-> o])
         IN  CASE err = "None"  -> [jobs |-> js1, log |-> log1, ret |-> n, raised |-> FALSE]
               [] err = "raise" -> [jobs |-> js1, log |-> log1, ret |-> None, raised |-> TRUE]
               [] OTHER -> NoPass(MarkLaunchFailed(js1, n, err, now), log1)

\* Mutant: a launch that returned an error is made a second time before the
\* job is marked failed.
dispatch_launches_twice(js, log, pt, out, now) ==
    IF ActiveRows(js, pt) # {} THEN NoPass(js, log)
    ELSE LET n == FirstQueued(js, pt) IN
         IF n = None THEN NoPass(js, log)
         ELSE LET js1  == Promote(js, n, now)
                  err  == launch_print_command(js1[n], out[n])
                  log1 == Append(log, [id |-> n, outcome |-> out[n]])
              IN  CASE err = "None"  -> [jobs |-> js1, log |-> log1, ret |-> n, raised |-> FALSE]
                    [] err = "raise" -> [jobs |-> js1, log |-> log1, ret |-> None, raised |-> TRUE]
                    [] OTHER -> NoPass(MarkLaunchFailed(js1, n, err, now),
                                       Append(log1, [id |-> n, outcome |-> out[n]]))

\* dispatch_next_job(printer_type), run to completion on table js.  out[i] is
\* the environment's outcome of launching job i.  The result is the table and
\* the launch log afterwards, the id of the job returned (None if none) and
\* whether the call ended in an exception.
RECURSIVE dispatch_next_job(_, _, _, _, _)
dispatch_next_job(js, log, pt, out, now) ==
    IF ActiveRows(js, pt) # {} THEN NoPass(js, log)
    ELSE LET n == FirstQueued(js, pt) IN
         IF n = None THEN NoPass(js, log)
         ELSE LET js1  == Promote(js, n, now)
                  err  == launch_print_command(js1[n], out[n])
                  log1 == Append(log, [id |-> n, outcome |-> out[n]])
              IN  CASE err = "None"  -> [jobs |-> js1, log |-> log1, ret |-> n, raised |-> FALSE]
                    [] err = "raise" -> [jobs |-> js1, log |-> log1, ret |-> None, raised |-> TRUE]
                    [] OTHER -> dispatch_next_job(MarkLaunchFailed(js1, n, err, now),
                                                  log1, pt, out, now)


\* ------------------------------------------------------ request normalisation
\* Mutant: the default is not passed on, so str() sees None.
value_from_request_without_default(raw, default) == raw

\* value_from_request(key, default) on a request that is not JSON:
\* request.form.get(key, default)
value_from_request(raw, default) == IF raw = Missing THEN default ELSE raw

\* (request.form.get(key) or "")
form_get_or_empty(raw) == IF raw = Missing THEN "" ELSE raw

\* str(value).strip().upper()
StripUpper(raw) ==
    CASE raw = "H2S" -> "H2S"
      [] raw = "p1s" -> "P1S"
      [] OTHER       -> "XYZ"

\* (str(notes).strip() or None)
StripOrNone(raw) == IF raw = "" THEN NoNotes ELSE <<raw>>

\* allowed_gcode(filename): the extension is one of gcode, gco, 3mf
allowed_gcode(filename) == filename = "part.gcode"

\* The launch outcomes a dispatch pass on table js can consume: one per queued
\* job of the type, none when the type is busy.
LaunchChoices(js, pt) ==
    IF ActiveRows(js, pt) # {} THEN {[i \in {} |-> "exit0"]}
    ELSE [Rows(js, pt, "queued") -> LaunchOutcomes]

NewJob(pt, notes, now) ==
    [printer_type |-> pt, notes |-> notes, status |-> "queued",
     submitted_at |-> now, started_at |-> None, completed_at |-> None]

\* --------------------------------------------------- history of a handler call
\* The request was rejected before any commit.
Reject(op, id, msg) ==
    /\ last' = [op |-> op, id |-> id, msg |-> msg, pt |-> "None", mid |-> jobs]
    /\ launched' = << >>
    /\ UNCHANGED <<jobs, nextId, launchCount>>

\* The handler committed table mid and then ran the dispatch pass d for
\* printer type pt on it.
Respond(op, id, msg, pt, mid, d) ==
    /\ jobs' = d.jobs
    /\ launched' = d.log
    /\ launchCount' = [i \in JobIds |-> launchCount[i] + Cardinality({k \in DOMAIN d.log : d.log[k].id = i})]
    /\ last' = [op |-> op, id |-> id,
                msg |-> IF d.raised THEN "500 Internal Server Error" ELSE msg,
                pt |-> pt, mid |-> mid]

\* ------------------------------------------------------------------- submit
\* Mutant: the printer type is not validated.
SubmitErrorSkipsTypeCheck(member, pt, file) ==
    IF ~member THEN "Could not find member for print job."
    ELSE IF file = "" THEN "Please upload a print file."
    ELSE IF ~allowed_gcode(file) THEN "Invalid file type."
    ELSE "None"

SubmitError(member, pt, file) ==
    IF ~member THEN "Could not find member for print job."
    ELSE IF pt \notin PRINTER_TYPES THEN "Invalid printer queue selected."
    ELSE IF file = "" THEN "Please upload a print file."
    ELSE IF ~allowed_gcode(file) THEN "Invalid file type."
    ELSE "None"

SubmitMessage(d, id) ==
    IF d.ret # None /\ d.ret = id THEN "job submitted and auto-started."
    ELSE "job submitted to queue."

\* Mutant: the JSON transport turns each field into text before the default
\* applies.
api_print_submit_str_of_none ==
    \E rq \in SubmitRequests :
        LET member == rq.member
            file   == rq.file
            nraw   == value_from_request_without_default(rq.notes, "")
            pt     == StripUpper(value_from_request_without_default(rq.printer_type, "")) IN
        IF SubmitError(member, pt, file) # "None"
        THEN /\ Reject("submit", None, SubmitError(member, pt, file))
        ELSE /\ nextId <= MaxJobs
             /\ LET mid == (nextId :> NewJob(pt, StripOrNone(nraw), clock)) @@ jobs IN
                \E out \in LaunchChoices(mid, pt) :
                    LET d == dispatch_next_job(mid, << >>, pt, out, clock) IN
                    Respond("submit", nextId, SubmitMessage(d, nextId), pt, mid, d)
             /\ nextId' = nextId + 1

api_print_submit ==
    \E rq \in SubmitRequests :
        LET member == rq.member
            file   == rq.file
            nraw   == value_from_request(rq.notes, "")
            pt     == StripUpper(value_from_request(rq.printer_type, "")) IN
        IF SubmitError(member, pt, file) # "None"
        THEN /\ Reject("submit", None, SubmitError(member, pt, file))
        ELSE /\ nextId <= MaxJobs
             /\ LET mid == (nextId :> NewJob(pt, StripOrNone(nraw), clock)) @@ jobs IN
                \E out \in LaunchChoices(mid, pt) :
                    LET d == dispatch_next_job(mid, << >>, pt, out, clock) IN
                    Respond("submit", nextId, SubmitMessage(d, nextId), pt, mid, d)
             /\ nextId' = nextId + 1

submit_print_job ==
    \E rq \in SubmitRequests :
        LET member == rq.member
            file   == rq.file
            nraw   == form_get_or_empty(rq.notes)
            pt     == StripUpper(form_get_or_empty(rq.printer_type)) IN
        IF SubmitError(member, pt, file) # "None"
        THEN /\ Reject("submit", None, SubmitError(member, pt, file))
        ELSE /\ nextId <= MaxJobs
             /\ LET mid == (nextId :> NewJob(pt, StripOrNone(nraw), clock)) @@ jobs IN
                \E out \in LaunchChoices(mid, pt) :
                    LET d == dispatch_next_job(mid, << >>, pt, out, clock) IN
                    Respond("submit", nextId, SubmitMessage(d, nextId), pt, mid, d)
             /\ nextId' = nextId + 1

\* ------------------------------------------------------- complete and fail
\* Mutant: a manual fail puts the job back in the queue for another try.
MarkFinishedRequeues(js, id, status, now) ==
    [js EXCEPT ![id].status = IF status = "failed" THEN "queued" ELSE status,
               ![id].completed_at = now]

\* Mutant: a manual complete or fail stamps started_at as well.
MarkFinishedStampsStart(js, id, status, now) ==
    [js EXCEPT ![id].status = status, ![id].completed_at = now,
               ![id].started_at = now]

\* job.status = <status>; job.completed_at = utcnow(); commit
MarkFinished(js, id, status, now) ==
    [js EXCEPT ![id].status = status, ![id].completed_at = now]

\* Mutant: the status is committed and the dispatcher is never called.
api_complete_without_dispatch(job_id) ==
    /\ UNCHANGED nextId
    /\ IF job_id \notin DOMAIN jobs
       THEN Reject("complete", job_id, "Print job not found.")
       ELSE LET mid == MarkFinished(jobs, job_id, "done", clock)
            IN  Respond("complete", job_id, "Marked job done.",
                        jobs[job_id].printer_type, mid, NoPass(mid, << >>))

api_complete_print_job(job_id) ==
    /\ UNCHANGED nextId
    /\ IF job_id \notin DOMAIN jobs
       THEN Reject("complete", job_id, "Print job not found.")
       ELSE LET mid == MarkFinished(jobs, job_id, "done", clock)
                pt  == jobs[job_id].printer_type
            IN  \E out \in LaunchChoices(mid, pt) :
                    Respond("complete", job_id, "Marked job done.", pt, mid,
                            dispatch_next_job(mid, << >>, pt, out, clock))

complete_print_job(job_id) ==
    /\ UNCHANGED nextId
    /\ IF job_id \notin DOMAIN jobs
       THEN Reject("complete", job_id, "Print job not found.")
       ELSE LET mid == MarkFinished(jobs, job_id, "done", clock)
                pt  == jobs[job_id].printer_type
            IN  \E out \in LaunchChoices(mid, pt) :
                    Respond("complete", job_id, "Marked job done.", pt, mid,
                            dispatch_next_job(mid, << >>, pt, out, clock))

\* Mutant: no dispatch pass follows a manual fail.
api_fail_without_dispatch(job_id) ==
    /\ UNCHANGED nextId
    /\ IF job_id \notin DOMAIN jobs
       THEN Reject("fail", job_id, "Print job not found.")
       ELSE LET mid == MarkFinished(jobs, job_id, "failed", clock)
            IN  Respond("fail", job_id, "Marked job failed.",
                        jobs[job_id].printer_type, mid, NoPass(mid, << >>))

\* Mutant: a manual fail records the reason in the notes.
api_fail_with_note(job_id) ==
    /\ UNCHANGED nextId
    /\ IF job_id \notin DOMAIN jobs
       THEN Reject("fail", job_id, "Print job not found.")
       ELSE LET fin == MarkFinished(jobs, job_id, "failed", clock)
                mid == [fin EXCEPT ![job_id].notes =
                                      AppendNote(jobs[job_id].notes, "marked failed")]
                pt  == jobs[job_id].printer_type
            IN  \E out \in LaunchChoices(mid, pt) :
                    Respond("fail", job_id, "Marked job failed.", pt, mid,
                            dispatch_next_job(mid, << >>, pt, out, clock))

api_fail_print_job(job_id) ==
    /\ UNCHANGED nextId
    /\ IF job_id \notin DOMAIN jobs
       THEN Reject("fail", job_id, "Print job not found.")
       ELSE LET mid == MarkFinished(jobs, job_id, "failed", clock)
                pt  == jobs[job_id].printer_type
            IN  \E out \in LaunchChoices(mid, pt) :
                    Respond("fail", job_id, "Marked job failed.", pt, mid,
                            dispatch_next_job(mid, << >>, pt, out, clock))

fail_print_job(job_id) ==
    /\ UNCHANGED nextId
    /\ IF job_id \notin DOMAIN jobs
       THEN Reject("fail", job_id, "Print job not found.")
       ELSE LET mid == MarkFinished(jobs, job_id, "failed", clock)
                pt  == jobs[job_id].printer_type
            IN  \E out \in LaunchChoices(mid, pt) :
                    Respond("fail", job_id, "Marked job failed.", pt, mid,
                            dispatch_next_job(mid, << >>, pt, out, clock))

\* ------------------------------------------------------------------- delete
\* db.session.delete(job); commit
DeleteRow(js, id) == [i \in DOMAIN js \ {id} |-> js[i]]

DeleteMessage(fo) ==
    CASE fo = "oserror" -> "Deleted job, but file removal failed."
      [] fo = "removed" -> "Deleted job and removed file."
      [] OTHER          -> "Deleted job. File was already missing."

\* Mutant: the pass after the delete promotes without the busy check.
delete_promotes_next(job_id, fo) ==
    LET mid == DeleteRow(jobs, job_id)
        pt  == jobs[job_id].printer_type
        n   == FirstQueued(mid, pt)
    IN  Respond("delete", job_id, DeleteMessage(fo), pt, mid,
                IF n = None THEN NoPass(mid, << >>)
                ELSE [jobs |-> Promote(mid, n, clock), ret |-> n, raised |-> FALSE,
                      log |-> <<[id |-> n, outcome |-> "exit0"]>>])

\* Mutant: a file that cannot be removed keeps the row.
delete_blocked_by_file_error(job_id, fo) ==
    IF fo = "oserror"
    THEN Reject("delete", job_id, DeleteMessage(fo))
    ELSE LET mid == DeleteRow(jobs, job_id)
             pt  == jobs[job_id].printer_type
         IN  \E out \in LaunchChoices(mid, pt) :
                 Respond("delete", job_id, DeleteMessage(fo), pt, mid,
                         dispatch_next_job(mid, << >>, pt, out, clock))

\* delete_print_job_with_file(job): the file outcome fo never stops the row's
\* removal; the dispatch pass for the job's type follows the commit.
delete_print_job_with_file(job_id, fo) ==
    LET mid == DeleteRow(jobs, job_id)
        pt  == jobs[job_id].printer_type
    IN  \E out \in LaunchChoices(mid, pt) :
            Respond("delete", job_id, DeleteMessage(fo), pt, mid,
                    dispatch_next_job(mid, << >>, pt, out, clock))

\* Mutant: the status of the job is not looked at.
api_delete_unguarded(job_id) ==
    /\ UNCHANGED nextId
    /\ IF job_id \notin DOMAIN jobs
       THEN Reject("delete", job_id, "Print job not found.")
       ELSE \E fo \in FileOutcomes : delete_print_job_with_file(job_id, fo)

api_delete_print_job(job_id) ==
    /\ UNCHANGED nextId
    /\ IF job_id \notin DOMAIN jobs
       THEN Reject("delete", job_id, "Print job not found.")
       ELSE IF jobs[job_id].status = "printing"
       THEN Reject("delete", job_id, "Cannot delete an active printing job.")
       ELSE \E fo \in FileOutcomes : delete_print_job_with_file(job_id, fo)

delete_print_job(job_id) ==
    /\ UNCHANGED nextId
    /\ IF job_id \notin DOMAIN jobs
       THEN Reject("delete", job_id, "Print job not found.")
       ELSE IF jobs[job_id].status = "printing"
       THEN Reject("delete", job_id, "Cannot delete an active printing job.")
       ELSE \E fo \in FileOutcomes : delete_print_job_with_file(job_id, fo)

\* ------------------------------------------------------------------ the clock
Tick ==
    /\ clock < MaxClock
    /\ clock' = clock + 1
    /\ UNCHANGED <<jobs, nextId, launched, launchCount, last, wk, outside>>

\* ------------------------------------------------------------ specification
NoSnapshot == << >>                       \* the response carried no snapshot
NoProcess == << >>                        \* no child process has been looked at

NoReply == [op |-> "none", arg |-> None, msg |-> "None"]

\* No item in stock, no transaction, no meeting.
DeskInit ==
    /\ item = [total_qty |-> 0, available_qty |-> 0]
    /\ transactions = << >>
    /\ meetings = << >>
    /\ tokens = 0
    /\ reply = NoReply

NoCall ==
    [op |-> "none", id |-> None, msg |-> "None", pt |-> "None", mid |-> << >>]

\* A worker between requests; op, id and res remember its last request.
AtRest(op, id, res) ==
    [pc |-> "idle", op |-> op, id |-> id, pt |-> "None", next |-> None,
     err |-> "None", notes |-> NoNotes, res |-> res]

Idle == AtRest("none", None, "none")

Init ==
    /\ jobs = << >>
    /\ nextId = 1
    /\ clock = 1
    /\ launched = << >>
    /\ launchCount = [i \in JobIds |-> 0]
    /\ last = NoCall
    /\ wk = [w \in Workers |-> Idle]
    /\ snap = NoSnapshot
    /\ proc = NoProcess
    /\ DeskInit

Next ==
    \/ api_print_submit /\ UNCHANGED <<clock, wk, outside>>
    \/ submit_print_job /\ UNCHANGED <<clock, wk, outside>>
    \/ \E id \in SpecIds : api_complete_print_job(id) /\ UNCHANGED <<clock, wk, outside>>
    \/ \E id \in SpecIds : complete_print_job(id) /\ UNCHANGED <<clock, wk, outside>>
    \/ \E id \in SpecIds : api_fail_print_job(id) /\ UNCHANGED <<clock, wk, outside>>
    \/ \E id \in SpecIds : fail_print_job(id) /\ UNCHANGED <<clock, wk, outside>>
    \/ \E id \in SpecIds : api_delete_print_job(id) /\ UNCHANGED <<clock, wk, outside>>
    \/ \E id \in SpecIds : delete_print_job(id) /\ UNCHANGED <<clock, wk, outside>>

\* Handlers one at a time, all within one reading of the clock.  No handler
\* branches on a timestamp, and submitted_at grows with the id, so the clock
\* decides no status.
Spec == Init /\ [][Next]_vars

\* The same with the clock advancing between calls, for at most MaxTimedJobs
\* jobs.
NextTime ==
    \/ api_print_submit /\ UNCHANGED <<clock, wk, outside>> /\ nextId' <= MaxTimedJobs + 1
    \/ submit_print_job /\ UNCHANGED <<clock, wk, outside>> /\ nextId' <= MaxTimedJobs + 1
    \/ \E id \in SpecIds : api_complete_print_job(id) /\ UNCHANGED <<clock, wk, outside>>
    \/ \E id \in SpecIds : complete_print_job(id) /\ UNCHANGED <<clock, wk, outside>>
    \/ \E id \in SpecIds : api_fail_print_job(id) /\ UNCHANGED <<clock, wk, outside>>
    \/ \E id \in SpecIds : fail_print_job(id) /\ UNCHANGED <<clock, wk, outside>>
    \/ \E id \in SpecIds : api_delete_print_job(id) /\ UNCHANGED <<clock, wk, outside>>
    \/ \E id \in SpecIds : delete_print_job(id) /\ UNCHANGED <<clock, wk, outside>>
    \/ Tick
SpecTime == Init /\ [][NextTime]_vars


\* ------------------------------------------------- concurrent request workers
\* app.run serves each request on its own thread with its own session.  Every
\* action below is one store read or one commit of one worker w; wk[w] holds
\* the handler's position and what its session has loaded.
Busy(w, pc, op, id, pt) ==
    [wk EXCEPT ![w] = [pc |-> pc, op |-> op, id |-> id, pt |-> pt, next |-> None,
                       err |-> "None", notes |-> NoNotes, res |-> "none"]]

Rest(w, res) == [wk EXCEPT ![w] = AtRest(wk[w].op, wk[w].id, res)]

\* api_print_submit / submit_print_job, lines 1280-1289: insert and commit.
ConcSubmit(w) ==
    /\ wk[w].pc = "idle"
    /\ nextId <= MaxJobs
    /\ \E rq \in SubmitRequests :
          LET pt == StripUpper(value_from_request(rq.printer_type, "")) IN
          /\ SubmitError(rq.member, pt, rq.file) = "None"
          /\ jobs' = (nextId :> NewJob(pt, StripOrNone(value_from_request(rq.notes, "")), clock)) @@ jobs
          /\ wk' = Busy(w, "check", "submit", nextId, pt)
    /\ nextId' = nextId + 1
    /\ UNCHANGED <<clock, launched, launchCount, last>>

\* complete / fail, db.session.get(PrintJob, job_id): a read.
ConcGet(w) ==
    /\ wk[w].pc = "idle"
    /\ \E op \in {"complete", "fail"}, id \in SpecIds :
          wk' = IF id \in DOMAIN jobs
                THEN Busy(w, "finish", op, id, jobs[id].printer_type)
                ELSE [wk EXCEPT ![w] = AtRest(op, id, "rejected")]
    /\ UNCHANGED <<jobs, nextId, clock, launched, launchCount, last>>

\* job.status = ...; job.completed_at = utcnow(); commit.  The UPDATE of a
\* row that is gone raises StaleDataError.
ConcFinish(w) ==
    /\ wk[w].pc = "finish"
    /\ IF wk[w].id \in DOMAIN jobs
       THEN /\ jobs' = MarkFinished(jobs, wk[w].id,
                           IF wk[w].op = "complete" THEN "done" ELSE "failed", clock)
            /\ wk' = [wk EXCEPT ![w].pc = "reload"]
       ELSE /\ wk' = Rest(w, "aborted")
            /\ UNCHANGED jobs
    /\ UNCHANGED <<nextId, clock, launched, launchCount, last>>

\* Mutant: complete and fail answer without a dispatch pass.
ConcReloadSkipsDispatch(w) ==
    /\ wk[w].pc = "reload"
    /\ wk' = IF wk[w].id \in DOMAIN jobs
             THEN [wk EXCEPT ![w].pc = "respond", ![w].next = None]
             ELSE Rest(w, "aborted")
    /\ UNCHANGED <<jobs, nextId, clock, launched, launchCount, last>>

\* dispatch_next_job(job.printer_type): the commit expired the job, reading
\* its printer_type loads the row again (ObjectDeletedError if it is gone).
ConcReload(w) ==
    /\ wk[w].pc = "reload"
    /\ wk' = IF wk[w].id \in DOMAIN jobs THEN [wk EXCEPT ![w].pc = "check"]
             ELSE Rest(w, "aborted")
    /\ UNCHANGED <<jobs, nextId, clock, launched, launchCount, last>>

\* delete, db.session.get and the status check on what was read.
ConcGetForDelete(w) ==
    /\ wk[w].pc = "idle"
    /\ \E id \in SpecIds :
          wk' = IF id \in DOMAIN jobs /\ jobs[id].status # "printing"
                THEN Busy(w, "delete", "delete", id, jobs[id].printer_type)
                ELSE [wk EXCEPT ![w] = AtRest("delete", id, "rejected")]
    /\ UNCHANGED <<jobs, nextId, clock, launched, launchCount, last>>

\* delete_print_job_with_file: db.session.delete(job); commit.
ConcDelete(w) ==
    /\ wk[w].pc = "delete"
    /\ IF wk[w].id \in DOMAIN jobs
       THEN /\ jobs' = DeleteRow(jobs, wk[w].id)
            /\ wk' = [wk EXCEPT ![w].pc = "check"]
       ELSE /\ wk' = Rest(w, "aborted")
            /\ UNCHANGED jobs
    /\ UNCHANGED <<nextId, clock, launched, launchCount, last>>

\* dispatch_next_job, line 585: is a job of the type printing?
ConcCheck(w) ==
    /\ wk[w].pc = "check"
    /\ wk' = IF ActiveRows(jobs, wk[w].pt) # {}
             THEN [wk EXCEPT ![w].pc = "respond", ![w].next = None]
             ELSE [wk EXCEPT ![w].pc = "pick"]
    /\ UNCHANGED <<jobs, nextId, clock, launched, launchCount, last>>

\* dispatch_next_job, lines 589-595: the first queued job of the type.
ConcPick(w) ==
    /\ wk[w].pc = "pick"
    /\ wk' = IF FirstQueued(jobs, wk[w].pt) = None
             THEN [wk EXCEPT ![w].pc = "respond", ![w].next = None]
             ELSE [wk EXCEPT ![w].pc = "promote", ![w].next = FirstQueued(jobs, wk[w].pt)]
    /\ UNCHANGED <<jobs, nextId, clock, launched, launchCount, last>>

\* dispatch_next_job, lines 597-599: UPDATE ... WHERE id = next_job.id, commit.
ConcPromote(w) ==
    /\ wk[w].pc = "promote"
    /\ IF wk[w].next \in DOMAIN jobs
       THEN /\ jobs' = Promote(jobs, wk[w].next, clock)
            /\ wk' = [wk EXCEPT ![w].pc = "launch"]
       ELSE /\ wk' = Rest(w, "aborted")
            /\ UNCHANGED jobs
    /\ UNCHANGED <<nextId, clock, launched, launchCount, last>>

\* dispatch_next_job, line 601: launch_print_command(next_job) loads the
\* expired row again and runs the command.
ConcLaunch(w) ==
    /\ wk[w].pc = "launch"
    /\ IF wk[w].next \in DOMAIN jobs
       THEN \E o \in LaunchOutcomes :
              LET err == launch_print_command(jobs[wk[w].next], o) IN
              /\ launchCount' = [launchCount EXCEPT ![wk[w].next] = @ + 1]
              /\ wk' = CASE err = "None"  -> [wk EXCEPT ![w].pc = "respond"]
                         [] err = "raise" -> Rest(w, "aborted")
                         [] OTHER -> [wk EXCEPT ![w].pc = "markfailed", ![w].err = err,
                                                ![w].notes = jobs[wk[w].next].notes]
       ELSE /\ wk' = Rest(w, "aborted")
            /\ UNCHANGED launchCount
    /\ UNCHANGED <<jobs, nextId, clock, launched, last>>

\* dispatch_next_job, lines 603-607: commit the failure, then dispatch again.
ConcMarkFailed(w) ==
    /\ wk[w].pc = "markfailed"
    /\ IF wk[w].next \in DOMAIN jobs
       THEN /\ jobs' = [jobs EXCEPT ![wk[w].next].status = "failed",
                                    ![wk[w].next].completed_at = clock,
                                    ![wk[w].next].notes = AppendNote(wk[w].notes, wk[w].err)]
            /\ wk' = [wk EXCEPT ![w].pc = "check", ![w].next = None,
                                ![w].err = "None", ![w].notes = NoNotes]
       ELSE /\ wk' = Rest(w, "aborted")
            /\ UNCHANGED jobs
    /\ UNCHANGED <<nextId, clock, launched, launchCount, last>>

\* The handler builds its response: started.id, job.id and job.printer_type
\* are read from the store again (a delete reads nothing of its job).
ConcRespond(w) ==
    /\ wk[w].pc = "respond"
    /\ wk' = IF wk[w].op = "delete" \/ wk[w].id \in DOMAIN jobs
             THEN Rest(w, IF wk[w].next = None THEN "ok" ELSE "started")
             ELSE Rest(w, "aborted")
    /\ UNCHANGED <<jobs, nextId, clock, launched, launchCount, last>>

\* At most MaxConcJobs jobs, all of one printer type and without user notes.
ConcBound ==
    /\ nextId <= MaxConcJobs + 1
    /\ \A i \in DOMAIN jobs : jobs[i].printer_type = "H2S"
    /\ \A i \in DOMAIN jobs : jobs[i].status = "queued" => jobs[i].notes = NoNotes

NextConc ==
    \E w \in Workers :
        \/ ConcSubmit(w) /\ ConcBound' /\ UNCHANGED outside
        \/ ConcGet(w) /\ UNCHANGED outside
        \/ ConcFinish(w) /\ UNCHANGED outside
        \/ ConcReload(w) /\ UNCHANGED outside
        \/ ConcGetForDelete(w) /\ UNCHANGED outside
        \/ ConcDelete(w) /\ UNCHANGED outside
        \/ ConcCheck(w) /\ UNCHANGED outside
        \/ ConcPick(w) /\ UNCHANGED outside
        \/ ConcPromote(w) /\ UNCHANGED outside
        \/ ConcLaunch(w) /\ UNCHANGED outside
        \/ ConcMarkFailed(w) /\ UNCHANGED outside
        \/ ConcRespond(w) /\ UNCHANGED outside

SpecConc == Init /\ [][NextConc]_vars

\* Only submits, with a launcher that fails on every call for BrokenType (it
\* may do anything for the other type).
BrokenType == "H2S"
LauncherBroken ==
    \A k \in DOMAIN launched :
        last.pt = BrokenType => launched[k].outcome \in LaunchFailures
SubmitNext ==
    \/ api_print_submit /\ UNCHANGED <<clock, wk, outside>> /\ LauncherBroken'
    \/ submit_print_job /\ UNCHANGED <<clock, wk, outside>> /\ LauncherBroken'
SpecBroken == Init /\ [][SubmitNext]_vars

\* One printer type with up to MaxIds jobs: accepted submits without notes,
\* completes and deletes, through the JSON API.
QueueType == "H2S"

\* api_print_submit, lines 1275-1296: the request passed validation.
QueueSubmit ==
    /\ nextId \in JobIds
    /\ LET mid == (nextId :> NewJob(QueueType, NoNotes, clock)) @@ jobs IN
       \E out \in LaunchChoices(mid, QueueType) :
           LET d == dispatch_next_job(mid, << >>, QueueType, out, clock) IN
           Respond("submit", nextId, SubmitMessage(d, nextId), QueueType, mid, d)
    /\ nextId' = nextId + 1

NextQueue ==
    \/ QueueSubmit /\ UNCHANGED <<clock, wk, outside>>
    \/ \E id \in JobIds : api_complete_print_job(id) /\ UNCHANGED <<clock, wk, outside>>
    \/ \E id \in JobIds : api_delete_print_job(id) /\ UNCHANGED <<clock, wk, outside>>

SpecQueue == Init /\ [][NextQueue]_vars

\* ------------------------------------------------------------------- helpers
\* filter_by(printer_type, status="queued").order_by(submitted_at, id).all()
RECURSIVE OrderRows(_, _)
OrderRows(js, ids) ==
    IF ids = {} THEN << >>
    ELSE LET h == CHOOSE i \in ids : \A j \in ids \ {i} : Precedes(js, i, j)
         IN  <<h>> \o OrderRows(js, ids \ {h})

QueuedInOrder(js, pt) == OrderRows(js, Rows(js, pt, "queued"))

\* --------------------------------------------------------- the queue snapshot
RECENT_LIMIT == 8                         \* .limit(8)

\* ORDER BY started_at ASC, id ASC
StartedBefore(js, a, b) ==
    \/ js[a].started_at < js[b].started_at
    \/ js[a].started_at = js[b].started_at /\ a < b

\* ORDER BY completed_at DESC, id DESC
FinishedAfter(js, a, b) ==
    \/ js[a].completed_at > js[b].completed_at
    \/ js[a].completed_at = js[b].completed_at /\ a > b

\* filter_by(printer_type, status="printing").order_by(started_at, id).first()
FirstActive(js, pt) ==
    IF Rows(js, pt, "printing") = {} THEN None
    ELSE CHOOSE i \in Rows(js, pt, "printing") :
             \A j \in Rows(js, pt, "printing") \ {i} : StartedBefore(js, i, j)

\* Mutant: the finished jobs oldest first.
RECURSIVE OrderFinishedAscending(_, _)
OrderFinishedAscending(js, ids) ==
    IF ids = {} THEN << >>
    ELSE LET h == CHOOSE i \in ids : \A j \in ids \ {i} : FinishedAfter(js, j, i)
         IN  <<h>> \o OrderFinishedAscending(js, ids \ {h})

\* filter(status.in_(["done", "failed"])).order_by(completed_at.desc(), id.desc())
RECURSIVE OrderFinished(_, _)
OrderFinished(js, ids) ==
    IF ids = {} THEN << >>
    ELSE LET h == CHOOSE i \in ids : \A j \in ids \ {i} : FinishedAfter(js, i, j)
         IN  <<h>> \o OrderFinished(js, ids \ {h})

\* .limit(n)
Limit(seq, n) == SubSeq(seq, 1, IF Len(seq) < n THEN Len(seq) ELSE n)

\* get_queue_snapshot(): per printer type the three query results; a job is
\* stood for by its id.
get_queue_snapshot(js) ==
    [pt \in PRINTER_TYPES |->
        [active |-> FirstActive(js, pt),
         queued |-> QueuedInOrder(js, pt),
         recent_finished |->
             Limit(OrderFinished(js, Rows(js, pt, "done") \cup Rows(js, pt, "failed")),
                   RECENT_LIMIT)]]

\* dashboard_context(): the same three queries, for the server-side pages.
dashboard_context(js) ==
    [pt \in PRINTER_TYPES |->
        [active |-> FirstActive(js, pt),
         queued |-> QueuedInOrder(js, pt),
         recent_finished |->
             Limit(OrderFinished(js, Rows(js, pt, "done") \cup Rows(js, pt, "failed")),
                   RECENT_LIMIT)]]

\* Mutant: the request also drops the finished jobs the snapshot leaves out.
api_bootstrap_prunes ==
    /\ snap' = get_queue_snapshot(jobs)
    /\ jobs' = [i \in {j \in DOMAIN jobs :
                          \/ jobs[j].status \in {"queued", "printing"}
                          \/ \E k \in DOMAIN snap'[jobs[j].printer_type].recent_finished :
                                snap'[jobs[j].printer_type].recent_finished[k] = j}
                |-> jobs[i]]
    /\ last' = [op |-> "bootstrap", id |-> None, msg |-> "None", pt |-> "None",
                mid |-> jobs]
    /\ launched' = << >>
    /\ UNCHANGED <<nextId, launchCount>>

\* GET /api/bootstrap: build_bootstrap_payload() -> get_queue_snapshot()
api_bootstrap ==
    /\ snap' = get_queue_snapshot(jobs)
    /\ last' = [op |-> "bootstrap", id |-> None, msg |-> "None", pt |-> "None",
                mid |-> jobs]
    /\ launched' = << >>
    /\ UNCHANGED <<jobs, nextId, launchCount>>

\* render_ops_page(): a server-side page, dashboard_context()
render_ops_page ==
    /\ snap' = dashboard_context(jobs)
    /\ last' = [op |-> "page", id |-> None, msg |-> "None", pt |-> "None",
                mid |-> jobs]
    /\ launched' = << >>
    /\ UNCHANGED <<jobs, nextId, launchCount>>

\* Up to MaxSnapJobs jobs, all but the first for one printer type; accepted
\* submits and completes of a printing job through the JSON API, the clock,
\* and the two snapshot readers.  The command templates are missing at first
\* and, once they have been configured, every launch succeeds.
SnapIds == 1 .. MaxSnapJobs

\* The launcher results a pass for type pt on table js can meet.
SnapChoices(js, pt) ==
    IF \A i \in DOMAIN jobs : jobs[i].status = "failed"
    THEN [Rows(js, pt, "queued") -> {"exit0", "unset"}]
    ELSE {[i \in Rows(js, pt, "queued") |-> "exit0"]}

\* api_print_submit, lines 1275-1296: the request passed validation.
SnapSubmit ==
    /\ nextId \in SnapIds
    /\ \E pt \in IF nextId = 1 THEN PRINTER_TYPES ELSE {QueueType} :
          LET mid == (nextId :> NewJob(pt, NoNotes, clock)) @@ jobs IN
          \E out \in SnapChoices(mid, pt) :
              LET d == dispatch_next_job(mid, << >>, pt, out, clock) IN
              Respond("submit", nextId, SubmitMessage(d, nextId), pt, mid, d)
    /\ nextId' = nextId + 1

\* api_complete_print_job, lines 1305-1310, for a printing job.
SnapComplete ==
    \E job_id \in {i \in DOMAIN jobs : jobs[i].status = "printing"} :
        /\ UNCHANGED nextId
        /\ LET mid == MarkFinished(jobs, job_id, "done", clock)
               pt  == jobs[job_id].printer_type
           IN  \E out \in SnapChoices(mid, pt) :
                   Respond("complete", job_id, "Marked job done.", pt, mid,
                           dispatch_next_job(mid, << >>, pt, out, clock))

NextSnapshot ==
    \/ SnapSubmit /\ UNCHANGED <<clock, wk, proc, desk>> /\ snap' = NoSnapshot
    \/ SnapComplete /\ UNCHANGED <<clock, wk, proc, desk>> /\ snap' = NoSnapshot
    \/ Tick
    \/ api_bootstrap /\ UNCHANGED <<clock, wk, proc, desk>>
    \/ render_ops_page /\ UNCHANGED <<clock, wk, proc, desk>>

SpecSnapshot == Init /\ [][NextSnapshot]_vars

\* ------------------------------------------------ the text of a launch failure
\* Process output is a sequence of characters; "x" stands for any character
\* that is not whitespace.
DIAG_LIMIT == 300                         \* error_text[:300]
LongText == 301                           \* the longest run of "x" tried

Run(n) == [i \in 1 .. n |-> "x"]

\* The outputs tried for stderr and for stdout.
OutputTexts ==
    {<< >>, <<" ">>, Run(1), <<" ">> \o Run(2) \o <<" ">>,
     Run(DIAG_LIMIT - 1), Run(DIAG_LIMIT), Run(LongText),
     <<" ">> \o Run(LongText), Run(DIAG_LIMIT) \o <<" ">>,
     Run(DIAG_LIMIT - 1) \o <<" ">> \o Run(2)}

DefaultText == <<"p","r","i","n","t"," ","c","o","m","m","a","n","d"," ",
                 "f","a","i","l","e","d">>

\* str.strip()
RECURSIVE LStrip(_)
LStrip(t) == IF t # << >> /\ Head(t) = " " THEN LStrip(Tail(t)) ELSE t

RECURSIVE RStrip(_)
RStrip(t) ==
    IF t # << >> /\ t[Len(t)] = " " THEN RStrip(SubSeq(t, 1, Len(t) - 1)) ELSE t

Strip(t) == RStrip(LStrip(t))

\* (result.stderr or result.stdout or "print command failed").strip()
error_text(stderr, stdout) ==
    Strip(IF stderr # << >> THEN stderr
          ELSE IF stdout # << >> THEN stdout
          ELSE DefaultText)

\* Mutant: the whole output goes into the text.
failure_return_untruncated(pt, stderr, stdout) ==
    <<EnvName(pt) \o " failed: ">> \o error_text(stderr, stdout)

\* f"{env_name} failed: {error_text[:300]}": the prefix, then the characters.
failure_return(pt, stderr, stdout) ==
    <<EnvName(pt) \o " failed: ">>
        \o SubSeq(error_text(stderr, stdout), 1,
                  IF Len(error_text(stderr, stdout)) < DIAG_LIMIT
                  THEN Len(error_text(stderr, stdout)) ELSE DIAG_LIMIT)

\* launch_print_command, lines 623-627: the child process has ended.
LaunchReturn ==
    /\ proc # NoProcess
    /\ proc.result = <<"pending">>
    /\ proc' = [proc EXCEPT !.result =
                    IF proc.returncode = 0 THEN <<"None">>
                    ELSE failure_return(proc.pt, proc.stderr, proc.stdout)]
    /\ UNCHANGED <<jobs, nextId, clock, launched, launchCount, last, wk, snap, desk>>

\* A child process of either printer type has just ended, with any exit
\* status and outputs.
InitLaunch ==
    /\ jobs = << >>
    /\ nextId = 1
    /\ clock = 1
    /\ launched = << >>
    /\ launchCount = [i \in JobIds |-> 0]
    /\ last = NoCall
    /\ wk = [w \in Workers |-> Idle]
    /\ snap = NoSnapshot
    /\ DeskInit
    /\ proc \in [pt : PRINTER_TYPES, returncode : {0, 1},
                  stderr : OutputTexts, stdout : OutputTexts,
                  result : {<<"pending">>}]

SpecLaunch == InitLaunch /\ [][LaunchReturn]_vars

\* ------------------------------------------------------------ the inventory
\* Raw qty values: text that int() refuses (or a missing field), and
\* integers from below zero to above the stock.
QtyInputs ==
    {[int |-> FALSE, n |-> 0]} \cup {[int |-> TRUE, n |-> k] : k \in -1 .. MaxQty + 1}

\* Raw action values, before .strip().lower().
ActionInputs == {"checkout", " Return", "borrow"}

\* The transact requests tried: every well-formed one, and one per defect.
TransactRequests ==
    {rq \in [member : BOOLEAN, item : BOOLEAN, action : ActionInputs, qty : QtyInputs] :
        \/ rq.member /\ rq.item /\ rq.action # "borrow"
        \/ rq.member /\ rq.item /\ rq.qty = [int |-> TRUE, n |-> 1]
        \/ rq.member # rq.item /\ rq.action = "checkout" /\ rq.qty = [int |-> TRUE, n |-> 1]}

\* Mutant: the parsed number is returned whatever its sign.
parse_int_any_sign(value, default) == IF value.int THEN value.n ELSE default

\* parse_int(value, default): int(value) when it is positive, else default.
parse_int(value, default) ==
    IF value.int /\ value.n > 0 THEN value.n ELSE default

\* str(action).strip().lower()
StripLower(raw) ==
    CASE raw = " Return" -> "return"
      [] OTHER           -> raw

InventoryError(member, found, action) ==
    IF ~member THEN "Could not find member."
    ELSE IF ~found THEN "Could not find item."
    ELSE IF action \notin {"checkout", "return"} THEN "Invalid inventory action."
    ELSE "None"

Min(a, b) == IF a <= b THEN a ELSE b

\* The body the two transports share, lines 1230-1256 and 1378-1407.
Transact(member, found, action, qty) ==
    /\ IF InventoryError(member, found, action) # "None"
       THEN /\ reply' = [op |-> action, arg |-> qty,
                         msg |-> InventoryError(member, found, action)]
            /\ UNCHANGED <<item, transactions>>
       ELSE IF action = "checkout" /\ item.available_qty < qty
       THEN /\ reply' = [op |-> action, arg |-> qty, msg |-> "Not enough stock."]
            /\ UNCHANGED <<item, transactions>>
       ELSE /\ item' = [item EXCEPT !.available_qty =
                           IF action = "checkout" THEN @ - qty
                           ELSE Min(item.total_qty, @ + qty)]
            /\ transactions' = Append(transactions, [action |-> action, qty |-> qty])
            /\ reply' = [op |-> action, arg |-> qty, msg |-> "saved"]
    /\ UNCHANGED <<jobs, nextId, clock, launched, launchCount, last, wk, snap, proc,
                   meetings, tokens>>

api_inventory_transact ==
    \E rq \in TransactRequests :
        Transact(rq.member, rq.item, StripLower(rq.action), parse_int(rq.qty, 1))

transact ==
    \E rq \in TransactRequests :
        Transact(rq.member, rq.item, StripLower(rq.action), parse_int(rq.qty, 1))

\* An item with any stock 0 <= available_qty <= total_qty <= MaxQty.
InitInventory ==
    /\ jobs = << >>
    /\ nextId = 1
    /\ clock = 1
    /\ launched = << >>
    /\ launchCount = [i \in JobIds |-> 0]
    /\ last = NoCall
    /\ wk = [w \in Workers |-> Idle]
    /\ snap = NoSnapshot
    /\ proc = NoProcess
    /\ item \in {it \in [total_qty : 0 .. MaxQty, available_qty : 0 .. MaxQty] :
                    it.available_qty <= it.total_qty}
    /\ transactions = << >>
    /\ meetings = << >>
    /\ tokens = 0
    /\ reply = NoReply

\* Both transports, until the transactions table holds MaxTx rows.
NextInventory ==
    \/ Len(transactions) < MaxTx /\ api_inventory_transact
    \/ Len(transactions) < MaxTx /\ transact

SpecInventory == InitInventory /\ [][NextInventory]_vars

\* ---------------------------------------------------------- the room calendar
MEETING_ROOMS == {"Robotics Room", "Fluids Lab"}
Today == 2                                \* date.today()

\* Raw request values after parse_due_date / parse_clock_time: None is a
\* missing or malformed field.
RoomInputs == MEETING_ROOMS \cup {"Lobby"}
DateInputs == {None, Today - 1, Today}
TimeInputs == {None} \cup (1 .. MaxSlot)

\* The book requests tried: every well-formed one, and one per defect.
BookRequests ==
    {rq \in [team : BOOLEAN, room : RoomInputs, date : DateInputs,
             start : TimeInputs, end : TimeInputs] :
        \/ rq.team /\ rq.room \in MEETING_ROOMS /\ rq.date = Today
                   /\ rq.start # None /\ rq.end # None
        \/ rq.room = "Fluids Lab" /\ rq.start = 1 /\ rq.end = 2
                   /\ (~rq.team \/ rq.date # Today) /\ (rq.team \/ rq.date = Today)
        \/ rq.team /\ rq.room = "Lobby" /\ rq.date = Today /\ rq.start = 1 /\ rq.end = 2
        \/ rq.team /\ rq.room = "Fluids Lab" /\ rq.date = Today
                   /\ rq.start = None /\ rq.end = 2}

BookError(rq) ==
    IF ~rq.team THEN "Team name is required."
    ELSE IF rq.room \notin MEETING_ROOMS THEN "Please select Robotics Room or Fluids Lab."
    ELSE IF rq.date = None THEN "Meeting date is required."
    ELSE IF rq.date < Today THEN "Meeting date cannot be in the past."
    ELSE IF rq.start = None \/ rq.end = None THEN "Start and end times are required."
    ELSE IF rq.end <= rq.start THEN "End time must be after start time."
    ELSE "None"

\* The conflict query, lines 1038-1048: meetings of the room and date that
\* overlap the range and have no cancellation request.
Conflicting(ms, rq) ==
    {m \in DOMAIN ms :
        /\ ms[m].room = rq.room
        /\ ms[m].meeting_date = rq.date
        /\ ms[m].start_time < rq.end
        /\ ms[m].end_time > rq.start
        /\ ms[m].cancel_request_token = None}

\* The primary key of a new row: one above the largest in the table.
NewMeetingId ==
    IF DOMAIN meetings = {} THEN 1
    ELSE (CHOOSE m \in DOMAIN meetings : \A o \in DOMAIN meetings : o <= m) + 1

\* Meeting.query.filter_by(cancel_request_token=token).first()
ByToken(ms, token) == {m \in DOMAIN ms : ms[m].cancel_request_token = token}

CalendarFrame ==
    UNCHANGED <<jobs, nextId, clock, launched, launchCount, last, wk, snap, proc,
                item, transactions>>

\* An Outlook sync failure changes the flash message only, so it is left out.
book_meeting ==
    /\ \E rq \in BookRequests :
          IF BookError(rq) # "None"
          THEN /\ reply' = [op |-> "book", arg |-> None, msg |-> BookError(rq)]
               /\ UNCHANGED meetings
          ELSE IF Conflicting(meetings, rq) # {}
          THEN /\ reply' = [op |-> "book", arg |-> None, msg |-> "already booked"]
               /\ UNCHANGED meetings
          ELSE /\ NewMeetingId <= MaxMeetings
               /\ meetings' = (NewMeetingId :>
                                  [room |-> rq.room, meeting_date |-> rq.date,
                                   start_time |-> rq.start, end_time |-> rq.end,
                                   cancel_request_token |-> None]) @@ meetings
               /\ reply' = [op |-> "book", arg |-> NewMeetingId, msg |-> "Booked"]
    /\ UNCHANGED tokens
    /\ CalendarFrame

\* The token is committed, then the email is sent; when sending fails the
\* token is taken back in a second commit.
request_meeting_cancel(meeting_id) ==
    /\ IF meeting_id \notin DOMAIN meetings
       THEN /\ reply' = [op |-> "cancel", arg |-> meeting_id, msg |-> "Meeting not found."]
            /\ UNCHANGED <<meetings, tokens>>
       ELSE IF meetings[meeting_id].cancel_request_token # None
       THEN /\ reply' = [op |-> "cancel", arg |-> meeting_id,
                         msg |-> "Cancellation already requested"]
            /\ UNCHANGED <<meetings, tokens>>
       ELSE /\ tokens < MaxTokens
            /\ tokens' = tokens + 1
            /\ \E email_error \in BOOLEAN :
                  IF email_error
                  THEN /\ UNCHANGED meetings
                       /\ reply' = [op |-> "cancel", arg |-> meeting_id,
                                    msg |-> "Cancellation email could not be sent"]
                  ELSE /\ meetings' = [meetings EXCEPT
                                          ![meeting_id].cancel_request_token = tokens + 1]
                       /\ reply' = [op |-> "cancel", arg |-> meeting_id,
                                    msg |-> "Cancellation request sent."]
    /\ CalendarFrame

confirm_meeting_cancel(token) ==
    /\ IF ByToken(meetings, token) = {}
       THEN /\ reply' = [op |-> "confirm", arg |-> token, msg |-> "404"]
            /\ UNCHANGED meetings
       ELSE \E calendar_error \in BOOLEAN :
               IF calendar_error
               THEN /\ reply' = [op |-> "confirm", arg |-> token, msg |-> "500"]
                    /\ UNCHANGED meetings
               ELSE /\ meetings' = [m \in DOMAIN meetings \ ByToken(meetings, token)
                                       |-> meetings[m]]
                    /\ reply' = [op |-> "confirm", arg |-> token,
                                 msg |-> "Cancellation confirmed."]
    /\ UNCHANGED tokens
    /\ CalendarFrame

reject_meeting_cancel(token) ==
    /\ IF ByToken(meetings, token) = {}
       THEN /\ reply' = [op |-> "reject", arg |-> token, msg |-> "404"]
            /\ UNCHANGED meetings
       ELSE /\ meetings' = [m \in DOMAIN meetings |->
                               IF m \in ByToken(meetings, token)
                               THEN [meetings[m] EXCEPT !.cancel_request_token = None]
                               ELSE meetings[m]]
            /\ reply' = [op |-> "reject", arg |-> token,
                         msg |-> "Cancellation request rejected."]
    /\ UNCHANGED tokens
    /\ CalendarFrame

NextMeetings ==
    \/ book_meeting
    \/ \E id \in 1 .. MaxMeetings : request_meeting_cancel(id)
    \/ \E t \in 1 .. MaxTokens : confirm_meeting_cancel(t)
    \/ \E t \in 1 .. MaxTokens : reject_meeting_cancel(t)

SpecMeetings == Init /\ [][NextMeetings]_vars

\* ---------------------------------------------------------------- the claims
\* C1.  Single-active invariant: with the handlers run one at a time and any
\* launcher outcomes, every printer type has at most one job whose status is
\* "printing" in every reachable state.
SingleActive ==
    \A pt \in PRINTER_TYPES : Cardinality(Rows(jobs, pt, "printing")) <= 1

\* A submit found its printer type busy and left the new job queued.
SingleActiveWitness ==
    /\ last.op = "submit"
    /\ last.msg = "job submitted to queue."
    /\ jobs[last.id].status = "queued"
    /\ Cardinality(Rows(jobs, last.pt, "printing")) = 1

\* C2 (as claimed).  Atomic check-and-promote under concurrency: with the
\* workers interleaving at every store read and commit, no two different
\* jobs of one printer type are "printing" in the same state.
NoDoublePromotion ==
    \A pt \in PRINTER_TYPES :
        \A a, b \in Rows(jobs, pt, "printing") : a = b

CompleteFailRequireActive ==
    [][(/\ last'.op \in {"complete", "fail"}
        /\ last'.id \in DOMAIN jobs
        /\ jobs[last'.id].status # "printing")
       => (jobs' = jobs /\ launched' = << >>)]_vars

\* C6 (as claimed).  Terminal states are final: a job that is done or failed
\* keeps its status and its completed_at for as long as its row exists.
TerminalFinal ==
    [][\A id \in DOMAIN jobs \cap DOMAIN jobs' :
          jobs[id].status \in {"done", "failed"}
          => /\ jobs'[id].status = jobs[id].status
             /\ jobs'[id].completed_at = jobs[id].completed_at]_vars

\* C7.  No re-queue: a job whose status is not "queued" is never "queued"
\* again, and a job whose launch returned an error is "failed" when the call
\* that launched it returns.
NoRequeue ==
    [][/\ \A id \in DOMAIN jobs \cap DOMAIN jobs' :
             jobs[id].status # "queued" => jobs'[id].status # "queued"
       /\ \A k \in DOMAIN launched' :
             launched'[k].outcome \in LaunchFailures
             => jobs'[launched'[k].id].status = "failed"]_vars

\* A launch failed, the job is failed, and the next queued job was tried.
NoRequeueWitness ==
    /\ Len(launched) = 2
    /\ launched[1].outcome \in LaunchFailures
    /\ jobs[launched[1].id].status = "failed"
    /\ jobs[launched[1].id].started_at # None

\* C8.  Deletion guard: a delete call on a job whose status is "printing" is
\* rejected: the table, the launch history and the id counter are as before
\* and no dispatch pass ran.
DeletionGuard ==
    [][(/\ last'.op = "delete"
        /\ last'.id \in DOMAIN jobs
        /\ jobs[last'.id].status = "printing")
       => /\ jobs' = jobs
          /\ launched' = << >>
          /\ launchCount' = launchCount
          /\ nextId' = nextId
          /\ last'.pt = "None"
          /\ last'.msg = "Cannot delete an active printing job."]_vars

\* A delete of the printing job was rejected while another job was queued.
DeletionGuardWitness ==
    /\ last.op = "delete"
    /\ last.msg = "Cannot delete an active printing job."
    /\ jobs[last.id].status = "printing"
    /\ Rows(jobs, jobs[last.id].printer_type, "queued") # {}

\* C9.  Auto-advance on completion: a complete call on the printing job of a
\* type that has queued jobs, with no launch failing, makes that job "done"
\* with completed_at stamped, promotes the first queued job in
\* (submitted_at, id) order with exactly one launch, and leaves every other
\* queued job as it was.
AutoAdvance ==
    [][(/\ last'.op = "complete"
        /\ last'.id \in DOMAIN jobs
        /\ jobs[last'.id].status = "printing"
        /\ Rows(jobs, jobs[last'.id].printer_type, "queued") # {}
        /\ \A k \in DOMAIN launched' : launched'[k].outcome = "exit0")
       => LET id == last'.id
              q  == Rows(jobs, jobs[id].printer_type, "queued")
          IN  /\ jobs'[id] = [jobs[id] EXCEPT !.status = "done", !.completed_at = clock]
              /\ jobs'[id].completed_at # None
              /\ \E n \in q :
                    /\ \A j \in q \ {n} : Precedes(jobs, n, j)
                    /\ jobs'[n] = [jobs[n] EXCEPT !.status = "printing", !.started_at = clock]
                    /\ launched' = <<[id |-> n, outcome |-> "exit0"]>>
                    /\ \A j \in q \ {n} : jobs'[j] = jobs[j]]_vars

\* The printing job was completed, the first of two queued jobs started and
\* the second stayed queued.
AutoAdvanceWitness ==
    /\ last.op = "complete"
    /\ last.msg = "Marked job done."
    /\ jobs[last.id].status = "done"
    /\ jobs[last.id].started_at # None
    /\ Len(launched) = 1
    /\ jobs[launched[1].id].status = "printing"
    /\ jobs[launched[1].id].printer_type = jobs[last.id].printer_type
    /\ Rows(jobs, last.pt, "queued") # {}

\* C10.  Skip-to-first-success: for the table a handler committed before its
\* dispatch pass, whenever the type is idle there with queued jobs q[1..n]
\* in (submitted_at, id) order, a launcher failing for q[1..k-1] and
\* succeeding for q[k] ends the pass with q[1..k-1] failed, q[k] printing
\* and returned, q[k+1..n] untouched, after exactly k launches, of q[1..k] in
\* that order; and the pass that did run is such a pass.
SkipToFirstSuccess ==
    (last.pt \in PRINTER_TYPES /\ ActiveRows(last.mid, last.pt) = {})
    => LET q == QueuedInOrder(last.mid, last.pt) IN
       /\ \A out \in [Rows(last.mid, last.pt, "queued") -> LaunchOutcomes] :
          \A k \in 1 .. Len(q) :
             (out[q[k]] = "exit0" /\ \A i \in 1 .. k - 1 : out[q[i]] \in LaunchFailures)
             => LET d == dispatch_next_job(last.mid, << >>, last.pt, out, clock) IN
                /\ d.ret = q[k] /\ ~d.raised
                /\ d.log = [i \in 1 .. k |-> [id |-> q[i], outcome |-> out[q[i]]]]
                /\ \A i \in 1 .. Len(q) :
                      /\ i < k => d.jobs[q[i]].status = "failed"
                      /\ i = k => d.jobs[q[i]].status = "printing"
                      /\ i > k => d.jobs[q[i]] = last.mid[q[i]]
       /\ LET k == Len(launched) IN
          (k >= 1 /\ launched[k].outcome = "exit0"
              /\ \A i \in 1 .. k - 1 : launched[i].outcome \in LaunchFailures)
          => /\ k <= Len(q)
             /\ \A i \in 1 .. Len(q) :
                   /\ i < k => launched[i].id = q[i] /\ jobs[q[i]].status = "failed"
                   /\ i = k => launched[i].id = q[i] /\ jobs[q[i]].status = "printing"
                   /\ i > k => jobs[q[i]] = last.mid[q[i]]

\* A pass on an idle type with two queued jobs: the launch of the first
\* failed, the launch of the second succeeded.
SkipToFirstSuccessWitness ==
    /\ last.pt \in PRINTER_TYPES
    /\ ActiveRows(last.mid, last.pt) = {}
    /\ Len(QueuedInOrder(last.mid, last.pt)) = 2
    /\ Len(launched) = 2
    /\ launched[1].outcome \in LaunchFailures
    /\ launched[2].outcome = "exit0"
    /\ jobs[launched[1].id].status = "failed"
    /\ jobs[launched[2].id].status = "printing"

\* C11.  Immediate start: a valid submit for a printer type with no printing
\* and no queued job, with no launch failing, returns with the new job
\* "printing", started_at stamped, and exactly one launch, of that job.
ImmediateStart ==
    [][(/\ last'.op = "submit"
        /\ last'.pt \in PRINTER_TYPES
        /\ Rows(jobs, last'.pt, "printing") = {}
        /\ Rows(jobs, last'.pt, "queued") = {}
        /\ \A k \in DOMAIN launched' : launched'[k].outcome = "exit0")
       => LET id == last'.id IN
          /\ id = nextId
          /\ jobs'[id].status = "printing"
          /\ jobs'[id].started_at = clock
          /\ jobs'[id].started_at # None
          /\ jobs'[id].completed_at = None
          /\ launched' = <<[id |-> id, outcome |-> "exit0"]>>
          /\ launchCount'[id] = 1
          /\ last'.msg = "job submitted and auto-started."]_vars

\* A submit on an idle type started its job at once, while the other type
\* already had a job printing.
ImmediateStartWitness ==
    /\ last.op = "submit"
    /\ last.msg = "job submitted and auto-started."
    /\ launched = <<[id |-> last.id, outcome |-> "exit0"]>>
    /\ jobs[last.id].status = "printing"
    /\ jobs[last.id].started_at # None
    /\ Rows(last.mid, last.pt, "queued") = {last.id}
    /\ \E i \in DOMAIN jobs : jobs[i].printer_type # last.pt

\* C12.  Idempotent re-dispatch: on a printer type with no queued and no
\* printing job a dispatch pass returns none, leaves the table as it was and
\* launches nothing, and so does a second pass after it; the pass a handler
\* ran on such a table did the same.
IdempotentRedispatch ==
    /\ \A pt \in PRINTER_TYPES :
          (Rows(jobs, pt, "queued") = {} /\ Rows(jobs, pt, "printing") = {})
          => LET d1 == dispatch_next_job(jobs, << >>, pt, << >>, clock)
                 d2 == dispatch_next_job(d1.jobs, d1.log, pt, << >>, clock)
             IN  /\ d1 = [jobs |-> jobs, log |-> << >>, ret |-> None, raised |-> FALSE]
                 /\ d2 = d1
    /\ (/\ last.pt \in PRINTER_TYPES
        /\ Rows(last.mid, last.pt, "queued") = {}
        /\ Rows(last.mid, last.pt, "printing") = {})
       => /\ jobs = last.mid
          /\ launched = << >>
          /\ last.msg # "500 Internal Server Error"

\* The only job of a type was completed: the pass that followed found the
\* type idle with nothing queued and changed nothing.
IdempotentRedispatchWitness ==
    /\ last.op = "complete"
    /\ last.pt \in PRINTER_TYPES
    /\ jobs[last.id].status = "done"
    /\ jobs[last.id].started_at # None
    /\ Rows(jobs, last.pt, "queued") = {}
    /\ Rows(jobs, last.pt, "printing") = {}
    /\ jobs = last.mid
    /\ launched = << >>

\* C13 (as claimed).  Launch errors are values, not exceptions: no handler
\* call ends in an exception out of the dispatch pass; every job whose launch
\* did not succeed is "failed" when the call returns; and after the last such
\* job the pass went on until a launch succeeded or nothing was queued.
LaunchErrorsAreValues ==
    /\ last.msg # "500 Internal Server Error"
    /\ \A k \in DOMAIN launched :
          launched[k].outcome # "exit0"
          => /\ jobs[launched[k].id].status = "failed"
             /\ \/ k < Len(launched)
                \/ Rows(jobs, last.pt, "queued") = {}

\* C14 (as claimed).  No retry: no job is ever launched more than once, and
\* a job that is "failed" with a launch error in its notes stays "failed" and
\* is not launched again for as long as its row exists.
NoRetry ==
    [][/\ \A i \in JobIds : launchCount'[i] <= 1
       /\ \A id \in DOMAIN jobs \cap DOMAIN jobs' :
             (/\ jobs[id].status = "failed"
              /\ \E k \in DOMAIN jobs[id].notes :
                    jobs[id].notes[k] \in
                        {launch_print_command(jobs[id], o) : o \in LaunchFailures})
             => /\ jobs'[id].status = "failed"
                /\ launchCount'[id] = launchCount[id]]_vars

\* C16 (as claimed).  Submit outcome report: a submit that was accepted and
\* answered reports "auto-started" exactly when the new job is "printing" at
\* the return and "submitted to queue" exactly when it is "queued" then.
SubmitReport ==
    (/\ last.op = "submit"
     /\ last.pt \in PRINTER_TYPES
     /\ last.msg # "500 Internal Server Error")
    => /\ last.msg \in {"job submitted and auto-started.", "job submitted to queue."}
       /\ last.msg = "job submitted and auto-started."
             <=> jobs[last.id].status = "printing"
       /\ last.msg = "job submitted to queue."
             <=> jobs[last.id].status = "queued"

\* C15.  Missing launcher configuration: a launch that finds no command
\* template returns the "is not configured" text; the job is "failed" with
\* completed_at stamped and that text appended to its notes; and the pass went
\* on to the first job still queued for the type, or found none queued.
MissingConfiguration ==
    \A k \in DOMAIN launched :
        launched[k].outcome = "unset"
        => LET id   == launched[k].id
               text == EnvName(last.pt) \o " is not configured"
               rest == Rows(last.mid, last.pt, "queued")
                          \ {launched[i].id : i \in 1 .. k}
           IN  /\ launch_print_command(last.mid[id], "unset") = text
               /\ jobs[id].status = "failed"
               /\ jobs[id].completed_at # None
               /\ jobs[id].notes = AppendNote(last.mid[id].notes, text)
               /\ IF rest = {} THEN k = Len(launched)
                  ELSE /\ k < Len(launched)
                       /\ launched[k + 1].id \in rest
                       /\ \A j \in rest \ {launched[k + 1].id} :
                             Precedes(last.mid, launched[k + 1].id, j)

\* The first of two queued jobs, one with user notes, found no template and
\* failed; the second was launched and is printing.
MissingConfigurationWitness ==
    /\ Len(launched) = 2
    /\ launched[1].outcome = "unset"
    /\ launched[2].outcome = "exit0"
    /\ last.mid[launched[1].id].notes # NoNotes
    /\ Len(jobs[launched[1].id].notes) = 3
    /\ jobs[launched[1].id].status = "failed"
    /\ jobs[launched[2].id].status = "printing"

\* C17.  Validation rejects change nothing: a submit answered with a
\* validation error, and a complete, fail or delete of an id that is not in
\* the table, leave the table, the id counter and the launch counts as they
\* were and run no dispatch pass; rows are created only by accepted submits,
\* and every row has an enumerated printer type.
ValidationRejects ==
    [][/\ ((\/ /\ last'.op = "submit"
               /\ last'.msg \in {"Could not find member for print job.",
                                 "Invalid printer queue selected.",
                                 "Please upload a print file.",
                                 "Invalid file type."}
            \/ /\ last'.op \in {"complete", "fail", "delete"}
               /\ last'.id \notin DOMAIN jobs)
           => /\ jobs' = jobs
              /\ nextId' = nextId
              /\ launched' = << >>
              /\ launchCount' = launchCount
              /\ last'.pt = "None"
              /\ last'.op # "submit" => last'.msg = "Print job not found.")
       /\ (nextId' # nextId \/ DOMAIN jobs' \ DOMAIN jobs # {})
           => /\ last'.op = "submit"
              /\ last'.pt \in PRINTER_TYPES
              /\ DOMAIN jobs' = DOMAIN jobs \cup {nextId}
       /\ \A i \in DOMAIN jobs' : jobs'[i].printer_type \in PRINTER_TYPES]_vars

\* A submit for an unknown printer type was rejected while one job was
\* printing and another queued.
ValidationRejectsWitness ==
    /\ last.op = "submit"
    /\ last.msg = "Invalid printer queue selected."
    /\ last.pt = "None"
    /\ launched = << >>
    /\ \E pt \in PRINTER_TYPES :
          Rows(jobs, pt, "printing") # {} /\ Rows(jobs, pt, "queued") # {}

\* C18.  Deletion is best-effort on the payload: a delete of a job that is
\* queued, done or failed removes its row whatever became of the stored file,
\* answers with one of the three delete messages, and is followed by a
\* dispatch pass for the job's printer type on the table without the row.
DeleteBestEffort ==
    [][(/\ last'.op = "delete"
        /\ last'.id \in DOMAIN jobs
        /\ jobs[last'.id].status \in {"queued", "done", "failed"})
       => LET id == last'.id
              pt == jobs[id].printer_type
          IN  /\ id \notin DOMAIN jobs'
              /\ last'.mid = DeleteRow(jobs, id)
              /\ last'.pt = pt
              /\ nextId' = nextId
              /\ last'.msg \in {DeleteMessage(fo) : fo \in FileOutcomes}
                                \cup {"500 Internal Server Error"}
              /\ \E out \in [Rows(last'.mid, pt, "queued") -> LaunchOutcomes] :
                    LET d == dispatch_next_job(last'.mid, << >>, pt, out, clock)
                    IN  jobs' = d.jobs /\ launched' = d.log]_vars

\* A job was deleted although its file could not be removed, while another
\* job of its type was printing.
DeleteBestEffortWitness ==
    /\ last.op = "delete"
    /\ last.msg = "Deleted job, but file removal failed."
    /\ last.id \notin DOMAIN jobs
    /\ last.id < nextId
    /\ Rows(jobs, last.pt, "printing") # {}

\* C19.  Deleting from the middle of the queue: a delete of a queued job
\* while a job of its type is printing removes that row and nothing else;
\* the printing job and every other row are as before, the queued jobs left
\* are in the (submitted_at, id) order they had, none is promoted and
\* nothing is launched.
DeleteMidQueue ==
    [][(/\ last'.op = "delete"
        /\ last'.id \in DOMAIN jobs
        /\ jobs[last'.id].status = "queued"
        /\ Rows(jobs, jobs[last'.id].printer_type, "printing") # {})
       => LET id == last'.id
              pt == jobs[id].printer_type
          IN  /\ DOMAIN jobs' = DOMAIN jobs \ {id}
              /\ \A i \in DOMAIN jobs' : jobs'[i] = jobs[i]
              /\ Rows(jobs', pt, "printing") = Rows(jobs, pt, "printing")
              /\ QueuedInOrder(jobs', pt)
                    = SelectSeq(QueuedInOrder(jobs, pt), LAMBDA x : x # id)
              /\ launched' = << >>
              /\ launchCount' = launchCount]_vars

\* With one job printing, the middle one of three queued jobs was deleted;
\* the two around it are still queued.
DeleteMidQueueWitness ==
    /\ last.op = "delete"
    /\ last.id \notin DOMAIN jobs
    /\ Rows(jobs, last.pt, "printing") # {}
    /\ Len(QueuedInOrder(jobs, last.pt)) = 2
    /\ QueuedInOrder(jobs, last.pt)[1] < last.id
    /\ last.id < QueuedInOrder(jobs, last.pt)[2]

\* C20.  Per-printer independence: a handler call that ran a dispatch pass
\* for one printer type leaves every row of the other type, and its launch
\* count, as they were and launches only jobs of its own type; a rejected
\* call changes no row; and on the table the handler committed, a pass for
\* the type does to its rows, returns and launches exactly what it would on
\* the table without the rows of the other type.
PrinterIndependence ==
    /\ [][/\ last'.pt = "None" => jobs' = jobs
          /\ last'.pt \in PRINTER_TYPES
             => /\ \A i \in DOMAIN jobs :
                      jobs[i].printer_type # last'.pt
                      => /\ i \in DOMAIN jobs'
                         /\ jobs'[i] = jobs[i]
                         /\ launchCount'[i] = launchCount[i]
                /\ \A k \in DOMAIN launched' :
                      last'.mid[launched'[k].id].printer_type = last'.pt]_vars
    /\ [](last.pt \in PRINTER_TYPES
          => LET pt  == last.pt
                 own == {i \in DOMAIN last.mid : last.mid[i].printer_type = pt}
                 tbl == [i \in own |-> last.mid[i]]
             IN  \A out \in [Rows(last.mid, pt, "queued") -> LaunchOutcomes] :
                    LET d == dispatch_next_job(last.mid, << >>, pt, out, clock)
                        o == dispatch_next_job(tbl, << >>, pt, out, clock)
                    IN  /\ d.ret = o.ret
                        /\ d.log = o.log
                        /\ d.raised = o.raised
                        /\ \A i \in own : d.jobs[i] = o.jobs[i]
                        /\ \A i \in DOMAIN last.mid \ own : d.jobs[i] = last.mid[i])

\* A submit started its job at once while the other printer type had one job
\* printing and one queued, both left as they were.
PrinterIndependenceWitness ==
    /\ last.op = "submit"
    /\ last.msg = "job submitted and auto-started."
    /\ jobs[last.id].status = "printing"
    /\ \E a, b \in DOMAIN jobs :
          /\ jobs[a].printer_type # last.pt
          /\ jobs[b].printer_type # last.pt
          /\ jobs[a].status = "printing"
          /\ jobs[b].status = "queued"

\* C23.  Diagnostic is append-only: over every handler call the notes a job
\* had are a prefix of the notes it has afterwards; a job whose launch
\* returned an error has its former notes, the separator when there were
\* any, and then the error text; every other job keeps its notes.
DiagnosticAppendOnly ==
    [][\A id \in DOMAIN jobs \cap DOMAIN jobs' :
          LET old == jobs[id].notes
              new == jobs'[id].notes
              err == {k \in DOMAIN launched' :
                         launched'[k].id = id /\ launched'[k].outcome \in LaunchFailures}
          IN  /\ Len(old) <= Len(new)
              /\ SubSeq(new, 1, Len(old)) = old
              /\ err = {} => new = old
              /\ \A k \in err :
                    LET text == launch_print_command(jobs[id], launched'[k].outcome)
                    IN  new = IF old = NoNotes THEN <<text>>
                              ELSE old \o <<" | ", text>>]_vars

\* A queued job that carried user notes failed at its launch: the user notes
\* are still the head of its notes.
DiagnosticAppendOnlyWitness ==
    \E k \in DOMAIN launched :
        /\ launched[k].outcome = "nonzero"
        /\ last.op \in {"complete", "fail"}
        /\ last.mid[launched[k].id].notes = <<"thin walls">>
        /\ Len(jobs[launched[k].id].notes) = 3
        /\ Head(jobs[launched[k].id].notes) = "thin walls"

\* C24.  started_at bookkeeping: a job has started_at set exactly when it
\* has been promoted (a launch was made for it), and no job with started_at
\* set is "queued".
StartedAtBookkeeping ==
    \A i \in DOMAIN jobs :
        /\ jobs[i].started_at # None <=> launchCount[i] >= 1
        /\ jobs[i].started_at # None => jobs[i].status \in {"printing", "done", "failed"}

\* One job was promoted and later completed, a second one is printing, a
\* third is waiting with started_at still null.
StartedAtBookkeepingWitness ==
    \E a, b, c \in DOMAIN jobs :
        /\ jobs[a].status = "done" /\ jobs[a].started_at # None
        /\ jobs[b].status = "printing" /\ jobs[b].started_at # None
        /\ jobs[c].status = "queued" /\ jobs[c].started_at = None
        /\ launchCount[c] = 0

\* C26.  Manual fail is symmetric to complete: a complete or a fail of the
\* printing job ends in the state the complete path computes (completed_at
\* stamped, the dispatch pass on the table with the job finished, the same
\* launches, notes untouched), the status of the job being "failed" after a
\* fail and "done" after a complete.
FailSymmetricToComplete ==
    [][(/\ last'.op \in {"complete", "fail"}
        /\ last'.id \in DOMAIN jobs
        /\ jobs[last'.id].status = "printing")
       => LET id  == last'.id
              pt  == jobs[id].printer_type
              fin == [jobs EXCEPT ![id].status = "done", ![id].completed_at = clock]
          IN  /\ last'.pt = pt
              /\ jobs'[id].notes = jobs[id].notes
              /\ jobs'[id].completed_at = clock
              /\ jobs'[id].status = IF last'.op = "fail" THEN "failed" ELSE "done"
              /\ \E out \in [Rows(jobs, pt, "queued") -> LaunchOutcomes] :
                    LET d == dispatch_next_job(fin, << >>, pt, out, clock)
                    IN  /\ launched' = d.log
                        /\ [jobs' EXCEPT ![id].status = "done"] = d.jobs]_vars

\* The printing job was marked failed by hand and the first of two queued
\* jobs was started.
FailSymmetricToCompleteWitness ==
    /\ last.op = "fail"
    /\ last.msg = "Marked job failed."
    /\ jobs[last.id].status = "failed"
    /\ jobs[last.id].started_at # None
    /\ jobs[last.id].notes = last.mid[last.id].notes
    /\ Len(launched) = 1
    /\ jobs[launched[1].id].status = "printing"
    /\ Rows(jobs, last.pt, "queued") # {}

\* C27.  Busy printer is left alone: on a printer type that has a printing
\* job a dispatch pass returns none, leaves every row as it was and launches
\* nothing, whatever is queued and whatever the launcher would do; the pass a
\* handler ran on a busy type did so.
BusyLeftAlone ==
    /\ \A pt \in PRINTER_TYPES :
          Rows(jobs, pt, "printing") # {}
          => \A out \in [Rows(jobs, pt, "queued") -> LaunchOutcomes] :
                dispatch_next_job(jobs, << >>, pt, out, clock)
                    = [jobs |-> jobs, log |-> << >>, ret |-> None, raised |-> FALSE]
    /\ (last.pt \in PRINTER_TYPES /\ Rows(last.mid, last.pt, "printing") # {})
       => /\ jobs = last.mid
          /\ launched = << >>
          /\ last.msg # "500 Internal Server Error"

\* A submit on a busy type: the new job is the third in the queue and
\* nothing else happened.
BusyLeftAloneWitness ==
    /\ last.op = "submit"
    /\ Rows(last.mid, last.pt, "printing") # {}
    /\ Len(QueuedInOrder(jobs, last.pt)) = 3
    /\ QueuedInOrder(jobs, last.pt)[3] = last.id
    /\ jobs = last.mid
    /\ launched = << >>

\* C28.  Dispatch terminates: the pass of a handler call launches only jobs
\* that were queued for its type at its start, each at most once, so at most
\* as many as were queued; every launch but the last returned an error and
\* left its job "failed" before the next call, and every launch took one job
\* out of the queue.
DispatchTerminates ==
    last.pt \in PRINTER_TYPES
    => LET q == Rows(last.mid, last.pt, "queued") IN
       /\ Len(launched) <= Cardinality(q)
       /\ \A k \in DOMAIN launched : launched[k].id \in q
       /\ \A k, l \in DOMAIN launched : k # l => launched[k].id # launched[l].id
       /\ \A k \in DOMAIN launched :
             k < Len(launched)
             => /\ launched[k].outcome \in LaunchFailures
                /\ jobs[launched[k].id].status = "failed"
       /\ Cardinality(Rows(jobs, last.pt, "queued")) = Cardinality(q) - Len(launched)
       /\ \A out \in [q -> LaunchOutcomes] :
             Len(dispatch_next_job(last.mid, << >>, last.pt, out, clock).log)
                <= Cardinality(q)

\* Three jobs were queued when the printing job was completed; the launch of
\* each one failed and the pass ended on the empty queue after three calls.
DispatchTerminatesWitness ==
    /\ last.op = "complete"
    /\ Cardinality(Rows(last.mid, last.pt, "queued")) = 3
    /\ Len(launched) = 3
    /\ \A k \in DOMAIN launched : launched[k].outcome \in LaunchFailures
    /\ Rows(jobs, last.pt, "queued") = {}
    /\ Rows(jobs, last.pt, "printing") = {}

\* C29 (as claimed).  No active job without a launch attempt: every printing
\* job has had launch_print_command called for it, and a job for which that
\* call ended before the command was run (no template, or the template could
\* not be formatted) is "failed" when the handler call is over.
NoActiveWithoutAttempt ==
    /\ \A i \in DOMAIN jobs : jobs[i].status = "printing" => launchCount[i] >= 1
    /\ \A k \in DOMAIN launched :
          launched[k].outcome \in {"unset", "badtemplate"}
          => jobs[launched[k].id].status = "failed"

\* C25.  completed_at bookkeeping: in every state a job has completed_at set
\* exactly when its status is "done" or "failed", and every step that takes a
\* job into "done" or "failed" (manual complete, manual fail, launch failure)
\* stamps completed_at with the time of the call.
CompletedAtBookkeeping ==
    /\ [](\A i \in DOMAIN jobs :
             jobs[i].completed_at # None <=> jobs[i].status \in {"done", "failed"})
    /\ [][\A id \in DOMAIN jobs' :
             (/\ jobs'[id].status \in {"done", "failed"}
              /\ id \in DOMAIN jobs => jobs[id].status \notin {"done", "failed"})
             => jobs'[id].completed_at = clock]_vars

\* One job failed at its launch, another was completed by hand at a later
\* time than it was started.
CompletedAtBookkeepingWitness ==
    \E a, b \in DOMAIN jobs :
        /\ jobs[a].status = "failed"
        /\ jobs[a].notes # NoNotes
        /\ jobs[a].completed_at = jobs[a].started_at
        /\ jobs[b].status = "done"
        /\ jobs[b].started_at # None
        /\ jobs[b].completed_at > jobs[b].started_at

\* C21.  Queue snapshot content: in a snapshot, for each printer type,
\* "active" is the printing job of the type, or none when there is none;
\* "queued" lists the queued jobs of the type, each once, in
\* (submitted_at, id) ascending order; "recent_finished" lists
\* min(8, number finished) done or failed jobs of the type, each once, latest
\* completed_at first (ties: higher id first), and no finished job left out
\* comes before one that is listed.
SnapshotContent ==
    snap # NoSnapshot
    => \A pt \in PRINTER_TYPES :
          LET a   == snap[pt].active
              q   == snap[pt].queued
              f   == snap[pt].recent_finished
              fin == Rows(jobs, pt, "done") \cup Rows(jobs, pt, "failed")
          IN  /\ IF Rows(jobs, pt, "printing") = {} THEN a = None
                 ELSE a \in Rows(jobs, pt, "printing")
              /\ {q[k] : k \in DOMAIN q} = Rows(jobs, pt, "queued")
              /\ Len(q) = Cardinality(Rows(jobs, pt, "queued"))
              /\ \A k, l \in DOMAIN q : k < l => Precedes(jobs, q[k], q[l])
              /\ Len(f) <= 8
              /\ Len(f) = IF Cardinality(fin) < 8 THEN Cardinality(fin) ELSE 8
              /\ {f[k] : k \in DOMAIN f} \subseteq fin
              /\ \A k, l \in DOMAIN f :
                    k < l
                    => \/ jobs[f[k]].completed_at > jobs[f[l]].completed_at
                       \/ /\ jobs[f[k]].completed_at = jobs[f[l]].completed_at
                          /\ f[k] > f[l]
              /\ \A x \in fin \ {f[k] : k \in DOMAIN f} : \A k \in DOMAIN f :
                    \/ jobs[f[k]].completed_at > jobs[x].completed_at
                    \/ /\ jobs[f[k]].completed_at = jobs[x].completed_at
                       /\ f[k] > x

\* A snapshot of a type with nine finished jobs, failed and done and not all
\* finished at the same time: eight are listed; and of the other type, which
\* has no job printing.
SnapshotContentWitness ==
    /\ snap # NoSnapshot
    /\ last.op = "bootstrap"
    /\ Cardinality(Rows(jobs, QueueType, "done") \cup Rows(jobs, QueueType, "failed")) = 9
    /\ Rows(jobs, QueueType, "done") # {}
    /\ Rows(jobs, QueueType, "failed") # {}
    /\ Len(snap[QueueType].recent_finished) = 8
    /\ \E k \in 1 .. 7 :
          jobs[snap[QueueType].recent_finished[k]].completed_at
              > jobs[snap[QueueType].recent_finished[k + 1]].completed_at
    /\ \E pt \in PRINTER_TYPES : snap[pt].active = None

\* C22.  The queue snapshot is read-only: a request that builds the snapshot
\* leaves the table, the id counter and the launch counts as they were, runs
\* no dispatch pass and makes no launch.
SnapshotReadOnly ==
    [][last'.op \in {"bootstrap", "page"}
       => /\ jobs' = jobs
          /\ nextId' = nextId
          /\ launchCount' = launchCount
          /\ launched' = << >>
          /\ last'.pt = "None"
          /\ snap' # NoSnapshot]_vars

\* A snapshot was built while one job was printing and two were queued.
SnapshotReadOnlyWitness ==
    /\ last.op \in {"bootstrap", "page"}
    /\ snap # NoSnapshot
    /\ last.mid = jobs
    /\ Rows(jobs, QueueType, "printing") # {}
    /\ Cardinality(Rows(jobs, QueueType, "queued")) = 2

\* C30.  Bounded diagnostic: the text returned for a non-zero exit is the
\* prefix "<variable> failed: " followed by at most 300 characters, which are
\* the head of the stripped error output, of the stripped standard output
\* when the error output is empty, or of "print command failed" when both
\* are empty; all of them when there are no more than 300.
BoundedDiagnostic ==
    (proc # NoProcess /\ proc.result # <<"pending">> /\ proc.returncode # 0)
    => LET r    == proc.result
           text == Tail(r)
           src  == IF proc.stderr # << >> THEN proc.stderr
                   ELSE IF proc.stdout # << >> THEN proc.stdout
                   ELSE DefaultText
           body == {w \in [from : 1 .. Len(src) + 1, to : 0 .. Len(src)] :
                       /\ w.from <= w.to + 1
                       /\ \A i \in 1 .. Len(src) :
                             (i < w.from \/ i > w.to) => src[i] = " "
                       /\ w.from <= w.to => src[w.from] # " " /\ src[w.to] # " "}
       IN  /\ Head(r) = "ASME_" \o proc.pt \o "_PRINT_CMD failed: "
           /\ Len(text) <= 300
           /\ Len(Head(r)) + Len(text) <= 27 + 300
           /\ \E w \in body :
                 /\ Len(text) = IF w.to - w.from + 1 < 300 THEN w.to - w.from + 1 ELSE 300
                 /\ \A i \in 1 .. Len(text) : text[i] = src[w.from + i - 1]

\* A process that wrote nothing to its error output and more than 300
\* characters to its standard output exited non-zero: 300 of them are kept.
BoundedDiagnosticWitness ==
    /\ proc # NoProcess
    /\ proc.returncode # 0
    /\ proc.stderr = << >>
    /\ Len(proc.stdout) > 300
    /\ proc.result # <<"pending">>
    /\ Len(proc.result) = 301

\* C31. No stalled queue, one handler at a time: after any sequence of submit,
\* complete, fail and delete calls, no printer type has a queued job and no
\* printing job.  (It holds after a call that ended in an unhandled exception
\* too: the job whose launch raised stays printing.)
NoStalledQueue ==
    \A pt \in PRINTER_TYPES :
        Rows(jobs, pt, "queued") # {} => Rows(jobs, pt, "printing") # {}

\* A fail call returned normally, its pass launched the next job, and another
\* job still waits behind it.
NoStalledQueueWitness ==
    /\ last.op = "fail"
    /\ last.msg = "Marked job failed."
    /\ Len(launched) = 1
    /\ Rows(jobs, last.pt, "queued") # {}
    /\ Rows(jobs, last.pt, "printing") = {launched[1].id}

\* A worker is between requests and its last request returned a response.
ReturnedNormally(w, ops) ==
    /\ wk[w].pc = "idle"
    /\ wk[w].op \in ops
    /\ wk[w].res \in {"ok", "started"}

\* C32. No lost wake-up: when a submit and a complete (or fail) served by two
\* workers, interleaved at every store read and commit, have both returned a
\* response and no other request is still being served, the submitted job is
\* not left queued while its printer type has no active job.
NoLostWakeup ==
    \A s \in Workers : \A f \in Workers \ {s} :
        (/\ ReturnedNormally(s, {"submit"})
         /\ ReturnedNormally(f, {"complete", "fail"})
         /\ \A w \in Workers : wk[w].pc = "idle")
            => ~ /\ wk[s].id \in DOMAIN jobs
                 /\ jobs[wk[s].id].status = "queued"
                 /\ ActiveRows(jobs, jobs[wk[s].id].printer_type) = {}

\* The hand-off: the submit found the type busy and left its job queued, the
\* complete of that active job then started the submitted job.
NoLostWakeupWitness ==
    \E s \in Workers : \E f \in Workers \ {s} :
        /\ ReturnedNormally(s, {"submit"}) /\ wk[s].res = "ok"
        /\ ReturnedNormally(f, {"complete", "fail"}) /\ wk[f].res = "started"
        /\ wk[f].id \in DOMAIN jobs /\ jobs[wk[f].id].status \in {"done", "failed"}
        /\ wk[s].id \in DOMAIN jobs /\ jobs[wk[s].id].status = "printing"
        /\ launchCount[wk[s].id] = 1

\* C33. Single launch per job under concurrency: with dispatch passes of two
\* workers interleaved at every store read and commit, launch_print_command
\* is never invoked twice for the same job.
SingleLaunchPerJob ==
    \A i \in JobIds : launchCount[i] <= 1

\* C34. Deletion guard under concurrency: with a delete and a dispatch pass
\* of two workers interleaved at every store read and commit, no step removes
\* the record of a job that is printing at the moment of the removal.
ConcDeletionGuard ==
    [][\A id \in DOMAIN jobs \ DOMAIN jobs' : jobs[id].status # "printing"]_vars

\* Both transports of every handler, for at most MaxTransportJobs jobs.
NextTransport ==
    \/ nextId <= MaxTransportJobs /\ api_print_submit /\ UNCHANGED <<clock, wk, outside>>
    \/ nextId <= MaxTransportJobs /\ submit_print_job /\ UNCHANGED <<clock, wk, outside>>
    \/ \E id \in SpecIds : api_complete_print_job(id) /\ UNCHANGED <<clock, wk, outside>>
    \/ \E id \in SpecIds : complete_print_job(id) /\ UNCHANGED <<clock, wk, outside>>
    \/ \E id \in SpecIds : api_fail_print_job(id) /\ UNCHANGED <<clock, wk, outside>>
    \/ \E id \in SpecIds : fail_print_job(id) /\ UNCHANGED <<clock, wk, outside>>
    \/ \E id \in SpecIds : api_delete_print_job(id) /\ UNCHANGED <<clock, wk, outside>>
    \/ \E id \in SpecIds : delete_print_job(id) /\ UNCHANGED <<clock, wk, outside>>
SpecTransport == Init /\ [][NextTransport]_vars

\* C35. Transport equivalence: on every request, the form-post handler and
\* the JSON API handler of the same operation accept or reject alike and
\* leave the same job table, the same id counter and the same launcher
\* invocations: every step of one is a step of the other.
TransportEquivalence ==
    [][/\ api_print_submit <=> submit_print_job
       /\ \A id \in SpecIds :
             /\ api_complete_print_job(id) <=> complete_print_job(id)
             /\ api_fail_print_job(id) <=> fail_print_job(id)
             /\ api_delete_print_job(id) <=> delete_print_job(id)]_vars

\* A submit with no notes (the field empty or missing) was accepted and its
\* job waits behind a printing job that has notes.
TransportEquivalenceWitness ==
    /\ last.op = "submit"
    /\ last.id \in DOMAIN jobs
    /\ jobs[last.id].notes = NoNotes
    /\ jobs[last.id].status = "queued"
    /\ Len(launched) = 0
    /\ \E i \in DOMAIN jobs : jobs[i].status = "printing" /\ jobs[i].notes # NoNotes

\* C36. Inventory stock bounds: an item that starts with
\* 0 <= available_qty <= total_qty keeps it through every checkout and
\* return, every logged transaction has a quantity of at least 1, and a
\* checkout for more than available_qty is rejected and changes neither the
\* item nor the transaction log.
StockBounds ==
    /\ [](/\ 0 <= item.available_qty
          /\ item.available_qty <= item.total_qty
          /\ \A k \in DOMAIN transactions : transactions[k].qty >= 1)
    /\ [][(reply'.op = "checkout" /\ reply'.arg > item.available_qty)
              => /\ reply'.msg \in {"Not enough stock.", "Could not find member.",
                                    "Could not find item."}
                 /\ UNCHANGED <<item, transactions>>]_vars

\* A checkout was refused for lack of stock after a return that was cut off
\* at total_qty.
StockBoundsWitness ==
    /\ reply.op = "checkout"
    /\ reply.msg = "Not enough stock."
    /\ reply.arg > item.available_qty
    /\ \E k \in DOMAIN transactions :
          /\ transactions[k].action = "return"
          /\ transactions[k].qty > item.total_qty

\* C37. No double booking: after any sequence of book, request-cancel,
\* confirm-cancel and reject-cancel calls, no two stored meetings without a
\* pending cancellation request share room and date with overlapping time
\* ranges.
NoDoubleBooking ==
    \A a \in DOMAIN meetings : \A b \in DOMAIN meetings \ {a} :
        (/\ meetings[a].cancel_request_token = None
         /\ meetings[b].cancel_request_token = None
         /\ meetings[a].room = meetings[b].room
         /\ meetings[a].meeting_date = meetings[b].meeting_date)
            => ~(/\ meetings[a].start_time < meetings[b].end_time
                 /\ meetings[b].start_time < meetings[a].end_time)

=============================================================================
